---- MODULE Spec2Model ----
(***************************************************************************)
(* FoldScape: the tools page (filter / sort table) and the dashboard       *)
(* (stats, category chart, top repos, trending repos), both reading the    *)
(* embedded collection window.REPOS_DATA.                                  *)
(*                                                                         *)
(* JavaScript strings that the code lower-cases, searches or compares are  *)
(* sequences of UTF-16 code units (<<65, 98>> is "Ab").  Strings that are  *)
(* only compared for equality or used as object keys (category, sort       *)
(* field, direction) are TLA+ strings.  An absent property is a key that   *)
(* is not in the DOMAIN of the record.  Arrays live in a heap and are      *)
(* named by references, so that an in-place sort changes the array that    *)
(* every alias of it sees.                                                 *)
(***************************************************************************)
EXTENDS Integers, Sequences, FiniteSets, TLC

VARIABLES
    page,            \* which script the document runs: "tools" | "dashboard"
    embedded,        \* window.REPOS_DATA is set (its array is heap["REPOS_DATA"])
    loaded,          \* DOMContentLoaded has been dispatched and init() has run
    heap,            \* array reference -> contents of the array
    allRepos,        \* tools page: reference held by `allRepos`
    filteredRepos,   \* tools page: reference held by `filteredRepos`
    currentSort,     \* tools page: [field, dir]
    searchInput,     \* tools page: #search-input .value (as typed)
    categoryFilter,  \* tools page: #category-filter .value
    languageFilter,  \* tools page: #language-filter .value
    languageOptions, \* tools page: <option>s appended to #language-filter
    sortBtnClass,    \* tools page: sort field of a button -> its asc/desc class
    listening,       \* tools page: setupEventListeners() has run
    toolsDom,        \* tools page: table body and the three statistics
    dashDom          \* dashboard: stats, chart data, top table, trending table

vars == <<page, embedded, loaded, heap, allRepos, filteredRepos, currentSort, searchInput,
          categoryFilter, languageFilter, languageOptions, sortBtnClass,
          listening, toolsDom, dashDom>>

(***************************************************************************)
(* Bounds of the model.                                                    *)
(***************************************************************************)
MaxRepos == 3   \* longest collection given to the tools page
MaxDash == 6    \* longest collection given to the dashboard

(***************************************************************************)
(* JavaScript helpers.                                                     *)
(***************************************************************************)
\* String.prototype.toLowerCase on one code unit (ASCII letters).
LowerUnit(u) == IF u >= 65 /\ u <= 90 THEN u + 32 ELSE u

ToLowerCase(s) == [i \in 1..Len(s) |-> LowerUnit(s[i])]

\* String.prototype.includes
Includes(s, t) ==
    \E i \in 0..(Len(s) - Len(t)) : SubSeq(s, i + 1, i + Len(t)) = t

\* a < b on two strings: code unit by code unit, a proper prefix is smaller.
RECURSIVE StrLess(_, _)
StrLess(a, b) ==
    IF b = <<>> THEN FALSE
    ELSE IF a = <<>> THEN TRUE
    ELSE IF a[1] < b[1] THEN TRUE
    ELSE IF a[1] > b[1] THEN FALSE
    ELSE StrLess(Tail(a), Tail(b))

\* repo.group?.key : is there a value at all
Has(repo, group, key) == group \in DOMAIN repo /\ key \in DOMAIN repo[group]

\* repo.group?.key || dflt, for a string made of code units
OrStr(repo, group, key, dflt) ==
    IF Has(repo, group, key) /\ repo[group][key] # <<>> THEN repo[group][key] ELSE dflt

\* repo.group?.key || dflt, for a key string
OrKey(repo, group, key, dflt) ==
    IF Has(repo, group, key) /\ repo[group][key] # "" THEN repo[group][key] ELSE dflt

\* repo.group?.key || dflt, for a number
OrNum(repo, group, key, dflt) ==
    IF Has(repo, group, key) /\ repo[group][key] # 0 THEN repo[group][key] ELSE dflt

\* repo.group?.key, for a boolean, used as a condition
IsTrue(repo, group, key) == Has(repo, group, key) /\ repo[group][key]

\* The two literals of the display defaults.
NoDescription == <<78, 111, 32, 100, 101, 115, 99, 114, 105, 112, 116, 105, 111, 110>>
Dash == <<45>>

\* formatNumber: below 1000 the number itself, from 1000 on thousands with
\* one decimal (toFixed(1)) and the suffix k.  toFixed rounds to the nearest
\* tenth; a value exactly half way (num % 100 = 50) is decided by its binary
\* expansion, a case the star counts of this model never sum to.
FormatNumber(num) ==
    IF num >= 1000
    THEN [int |-> ((num + 50) \div 100) \div 10, dec |-> ((num + 50) \div 100) % 10, k |-> TRUE]
    ELSE [int |-> num, dec |-> 0, k |-> FALSE]

RECURSIVE SumStars(_)
SumStars(repos) ==
    IF repos = <<>> THEN 0
    ELSE OrNum(Head(repos), "metadata", "stars", 0) + SumStars(Tail(repos))

(***************************************************************************)
(* Comparators and Array.prototype.sort.                                   *)
(***************************************************************************)
SortFields == {"name", "stars", "updated", "last_updated"}
Dirs == {"asc", "desc"}

\* Signed with the direction left out of account.
SignedAscending(less, greater, dir) ==
    IF less THEN -1 ELSE IF greater THEN 1 ELSE 0

\* The tail of sortRepos' comparator: the sign for a smaller / greater key.
Signed(less, greater, dir) ==
    IF less THEN (IF dir = "asc" THEN -1 ELSE 1)
    ELSE IF greater THEN (IF dir = "asc" THEN 1 ELSE -1)
    ELSE 0

\* SortReposCompare with the timestamp case under another label.
SortReposCompareRelabelled(sort, a, b) ==
    CASE sort.field = "name" ->
           LET aVal == ToLowerCase(OrStr(a, "metadata", "name", <<>>))
               bVal == ToLowerCase(OrStr(b, "metadata", "name", <<>>))
           IN  Signed(StrLess(aVal, bVal), StrLess(bVal, aVal), sort.dir)
      [] sort.field = "stars" ->
           LET aVal == OrNum(a, "metadata", "stars", 0)
               bVal == OrNum(b, "metadata", "stars", 0)
           IN  Signed(aVal < bVal, aVal > bVal, sort.dir)
      [] sort.field = "last_updated" ->
           LET aVal == OrStr(a, "metadata", "last_updated", <<>>)
               bVal == OrStr(b, "metadata", "last_updated", <<>>)
           IN  Signed(StrLess(aVal, bVal), StrLess(bVal, aVal), sort.dir)
      [] OTHER -> 0

\* The comparator sortRepos hands to sort, reading currentSort.
SortReposCompare(sort, a, b) ==
    CASE sort.field = "name" ->
           LET aVal == ToLowerCase(OrStr(a, "metadata", "name", <<>>))
               bVal == ToLowerCase(OrStr(b, "metadata", "name", <<>>))
           IN  Signed(StrLess(aVal, bVal), StrLess(bVal, aVal), sort.dir)
      [] sort.field = "stars" ->
           LET aVal == OrNum(a, "metadata", "stars", 0)
               bVal == OrNum(b, "metadata", "stars", 0)
           IN  Signed(aVal < bVal, aVal > bVal, sort.dir)
      [] sort.field = "updated" ->
           LET aVal == OrStr(a, "metadata", "last_updated", <<>>)
               bVal == OrStr(b, "metadata", "last_updated", <<>>)
           IN  Signed(StrLess(aVal, bVal), StrLess(bVal, aVal), sort.dir)
      [] OTHER -> 0

\* StarsCompare with the operands exchanged.
StarsCompareAscending(a, b) ==
    OrNum(a, "metadata", "stars", 0) - OrNum(b, "metadata", "stars", 0)

\* renderTopRepos' comparator
StarsCompare(a, b) ==
    OrNum(b, "metadata", "stars", 0) - OrNum(a, "metadata", "stars", 0)

\* renderTrendingRepos' comparator
VelocityCompare(a, b) ==
    OrNum(b, "tracking", "star_velocity_7d", 0) - OrNum(a, "tracking", "star_velocity_7d", 0)

\* A comparator is named by a record; Compare applies it.
Compare(cmp, a, b) ==
    CASE cmp.fn = "sortRepos" -> SortReposCompare(cmp.sort, a, b)
      [] cmp.fn = "stars" -> StarsCompare(a, b)
      [] cmp.fn = "velocity" -> VelocityCompare(a, b)

\* x put into the sorted sequence s behind every element that is not
\* greater than it.
RECURSIVE InsertSorted(_, _, _)
InsertSorted(s, x, cmp) ==
    IF s = <<>> THEN <<x>>
    ELSE IF Compare(cmp, Head(s), x) > 0 THEN <<x>> \o s
    ELSE <<Head(s)>> \o InsertSorted(Tail(s), x, cmp)

\* Array.prototype.sort with a comparator: a stable sort (ECMAScript 2019;
\* the optional chaining of the code needs a later engine than that).
RECURSIVE SortedUpTo(_, _, _)
SortedUpTo(s, n, cmp) ==
    IF n = 0 THEN <<>> ELSE InsertSorted(SortedUpTo(s, n - 1, cmp), s[n], cmp)

ArraySort(s, cmp) == SortedUpTo(s, Len(s), cmp)

\* Array.prototype.slice(0, n)
Slice(s, n) == SubSeq(s, 1, IF Len(s) < n THEN Len(s) ELSE n)

(***************************************************************************)
(* The heap of arrays.                                                     *)
(***************************************************************************)
Refs == {"REPOS_DATA", "allRepos0", "filteredRepos0", "filter",
         "spread", "top10", "trendingFilter", "trending"}

\* arr.sort(cmp): sorts the array in place
SortInPlace(h, ref, cmp) == [h EXCEPT ![ref] = ArraySort(h[ref], cmp)]

\* [...arr] : a new array `dst` with the elements of `src`
Spread(h, src, dst) == [heap |-> [h EXCEPT ![dst] = h[src]], ref |-> dst]

(***************************************************************************)
(* The collections the pages are given.  window.REPOS_DATA is produced     *)
(* outside this repository; the tools page is checked on every sequence    *)
(* of up to MaxRepos distinct records of ToolRepos, the dashboard on every *)
(* sequence of up to MaxDash records of the shapes DashShapes.             *)
(***************************************************************************)
\* "x", name "Ab", description "b", language "Py", updated "2"
RepoX == [repo_id |-> <<120>>,
          metadata |-> [name |-> <<65, 98>>, description |-> <<98>>, stars |-> 1500,
                        language |-> <<80, 121>>, last_updated |-> <<50>>],
          classification |-> [category |-> "Infrastructure"]]
\* "y", name "aB", no description, language "C", updated "1"
RepoY == [repo_id |-> <<121>>,
          metadata |-> [name |-> <<97, 66>>, stars |-> 1500,
                        language |-> <<67>>, last_updated |-> <<49>>],
          classification |-> [category |-> "Core Methods"]]
\* "ab", nothing but the identifier
RepoAb == [repo_id |-> <<97, 98>>]
\* "z", name "B", description "Ab", language "Py", empty category, no date
RepoZ == [repo_id |-> <<122>>,
          metadata |-> [name |-> <<66>>, description |-> <<65, 98>>, stars |-> 500,
                        language |-> <<80, 121>>],
          classification |-> [category |-> ""]]

ToolRepos == {RepoX, RepoY, RepoAb, RepoZ}

\* Sequences without repetition (repo_id is unique in a collection).
RECURSIVE InjSeqs(_, _)
InjSeqs(S, n) ==
    IF n = 0 THEN {<<>>}
    ELSE LET shorter == InjSeqs(S, n - 1)
         IN  shorter \cup
             UNION {{Append(q, x) : x \in S \ {q[i] : i \in 1..Len(q)}} :
                    q \in {t \in shorter : Len(t) = n - 1}}

ToolCollections == InjSeqs(ToolRepos, MaxRepos)

\* What the user can type into #search-input: "", "a", "AB", "n"
SearchTerms == {<<>>, <<97>>, <<65, 66>>, <<110>>}

\* The <option> values of #category-filter (static markup of the page).
CategoryOptions == {"", "Infrastructure", "Uncategorized"}

(***************************************************************************)
(* Tools page.                                                             *)
(***************************************************************************)
\* escapeHtml on a string: & < > become entities.
RECURSIVE EscapeHtml(_)
EscapeHtml(text) ==
    IF text = <<>> THEN <<>>
    ELSE (CASE Head(text) = 38 -> <<38, 97, 109, 112, 59>>
            [] Head(text) = 60 -> <<38, 108, 116, 59>>
            [] Head(text) = 62 -> <<38, 103, 116, 59>>
            [] OTHER -> <<Head(text)>>) \o EscapeHtml(Tail(text))

\* x put into a sequence of strings sorted by code units (no duplicates).
RECURSIVE InsertStr(_, _)
InsertStr(s, x) ==
    IF s = <<>> THEN <<x>>
    ELSE IF Head(s) = x THEN s
    ELSE IF StrLess(x, Head(s)) THEN <<x>> \o s
    ELSE <<Head(s)>> \o InsertStr(Tail(s), x)

\* populateLanguageFilter: the distinct truthy languages, sorted.
RECURSIVE PopulateLanguageFilter(_)
PopulateLanguageFilter(repos) ==
    IF repos = <<>> THEN <<>>
    ELSE LET r == repos[Len(repos)]
             rest == PopulateLanguageFilter(SubSeq(repos, 1, Len(repos) - 1))
         IN  IF Has(r, "metadata", "language") /\ r.metadata.language # <<>>
             THEN InsertStr(rest, r.metadata.language)
             ELSE rest

\* RepoMatches with the name and the description searched as they are.
RepoMatchesNoLower(repo, searchTerm, catFilter, langFilter) ==
    LET name == OrStr(repo, "metadata", "name", <<>>)
        desc == OrStr(repo, "metadata", "description", <<>>)
        category == OrKey(repo, "classification", "category", "Uncategorized")
        language == OrStr(repo, "metadata", "language", <<>>)
    IN  /\ searchTerm = <<>> \/ Includes(name, searchTerm) \/ Includes(desc, searchTerm)
        /\ catFilter = "" \/ category = catFilter
        /\ langFilter = <<>> \/ language = langFilter

\* The callback of allRepos.filter in applyFilters.
RepoMatches(repo, searchTerm, catFilter, langFilter) ==
    LET name == ToLowerCase(OrStr(repo, "metadata", "name", <<>>))
        desc == ToLowerCase(OrStr(repo, "metadata", "description", <<>>))
        category == OrKey(repo, "classification", "category", "Uncategorized")
        language == OrStr(repo, "metadata", "language", <<>>)
        matchesSearch == searchTerm = <<>> \/ Includes(name, searchTerm)
                                           \/ Includes(desc, searchTerm)
        matchesCategory == catFilter = "" \/ category = catFilter
        matchesLanguage == langFilter = <<>> \/ language = langFilter
    IN  matchesSearch /\ matchesCategory /\ matchesLanguage

\* SortRepos sorting the collection itself.
SortReposAll(h, filtered, sort) ==
    [SortInPlace(h, "REPOS_DATA", [fn |-> "sortRepos", sort |-> sort])
       EXCEPT ![filtered] = ArraySort(h[filtered], [fn |-> "sortRepos", sort |-> sort])]

\* sortRepos: sorts the array `filteredRepos` refers to, in place.
SortRepos(h, filtered, sort) == SortInPlace(h, filtered, [fn |-> "sortRepos", sort |-> sort])

\* One row of renderTable (the date cell, formatted by the locale, is left out).
TableRow(repo) ==
    [name |-> EscapeHtml(OrStr(repo, "metadata", "name", repo.repo_id)),
     desc |-> EscapeHtml(OrStr(repo, "metadata", "description", NoDescription)),
     stars |-> FormatNumber(OrNum(repo, "metadata", "stars", 0)),
     category |-> OrKey(repo, "classification", "category", "Uncategorized"),
     language |-> OrStr(repo, "metadata", "language", Dash)]

RenderTable(repos) ==
    IF Len(repos) = 0
    THEN [msg |-> "No tools match your filters.", rows |-> <<>>]
    ELSE [msg |-> "", rows |-> [i \in 1..Len(repos) |-> TableRow(repos[i])]]

UpdateStats(filtered, all) ==
    [showing |-> Len(filtered), total |-> Len(all),
     totalStars |-> FormatNumber(SumStars(filtered))]

\* ApplyFilters narrowing the rows already shown when a search term is
\* given, instead of filtering the collection.
ApplyFiltersNarrowing(h, all, filtered, sort, sInput, catFilter, langFilter) ==
    LET searchTerm == ToLowerCase(sInput)
        from == IF sInput = <<>> THEN all ELSE filtered
        h1 == [h EXCEPT !["filter"] =
                 SelectSeq(h[from], LAMBDA repo :
                             RepoMatches(repo, searchTerm, catFilter, langFilter))]
        h2 == [h1 EXCEPT !["filter"] = ArraySort(h1["filter"], [fn |-> "sortRepos", sort |-> sort])]
    IN  [heap |-> h2, filteredRepos |-> "filter",
         dom |-> [tbody |-> RenderTable(h2["filter"]),
                  stats |-> <<[showing |-> Len(h2["filter"]), total |-> Len(h2[all]),
                               totalStars |-> FormatNumber(SumStars(h2["filter"]))]>>]]

\* applyFilters: filter allRepos into a new array, sort it, render, count.
ApplyFilters(h, all, filtered, sort, sInput, catFilter, langFilter) ==
    LET searchTerm == ToLowerCase(sInput)
        h1 == [h EXCEPT !["filter"] =
                 SelectSeq(h[all], LAMBDA repo :
                             RepoMatches(repo, searchTerm, catFilter, langFilter))]
        h2 == SortRepos(h1, "filter", sort)
    IN  [heap |-> h2, filteredRepos |-> "filter",
         dom |-> [tbody |-> RenderTable(h2["filter"]),
                  stats |-> <<UpdateStats(h2["filter"], h2[all])>>]]

\* ClickSort without the reset of the direction for a new field.
ClickSortKeepDir(sort, field) ==
    IF sort.field = field
    THEN [field |-> sort.field, dir |-> IF sort.dir = "asc" THEN "desc" ELSE "asc"]
    ELSE [field |-> field, dir |-> sort.dir]

\* The click listener of a sort button: the new currentSort.
ClickSort(sort, field) ==
    IF sort.field = field
    THEN [field |-> sort.field, dir |-> IF sort.dir = "asc" THEN "desc" ELSE "asc"]
    ELSE [field |-> field, dir |-> "desc"]

(***************************************************************************)
(* Dashboard.                                                              *)
(***************************************************************************)
TopLimit == 10
TrendingLimit == 5
VelocityThreshold == 10

ShapeA == [metadata |-> [stars |-> 500],
           classification |-> [category |-> "Infrastructure"],
           tracking |-> [trending |-> TRUE, star_velocity_7d |-> 0],
           domain_specific |-> [experimental_validation |-> TRUE]]
ShapeB == [metadata |-> [stars |-> 1500],
           classification |-> [category |-> "Core Methods"],
           tracking |-> [star_velocity_7d |-> 11]]
ShapeC == [metadata |-> [stars |-> 1500],
           classification |-> [category |-> "Infrastructure"],
           tracking |-> [trending |-> FALSE, star_velocity_7d |-> 10]]
ShapeD == [domain_specific |-> [experimental_validation |-> FALSE]]
ShapeE == [metadata |-> [stars |-> 7],
           classification |-> [category |-> "constructor"],
           tracking |-> [trending |-> TRUE]]

DashShapes == {ShapeA, ShapeB, ShapeC, ShapeD, ShapeE}

\* The i-th record of a collection has repo_id "1", "2", ...
WithIds(q) == [i \in 1..Len(q) |-> q[i] @@ [repo_id |-> <<48 + i>>]]

DashCollections == {WithIds(q) : q \in UNION {[1..n -> DashShapes] : n \in 0..MaxDash}}

RenderStats(repos) ==
    [total |-> Len(repos),
     trending |-> Len(SelectSeq(repos, LAMBDA r : IsTrue(r, "tracking", "trending"))),
     validated |-> Len(SelectSeq(repos, LAMBDA r :
                         IsTrue(r, "domain_specific", "experimental_validation"))),
     totalStars |-> FormatNumber(SumStars(repos))]

\* The function-valued properties every object literal inherits from
\* Object.prototype: reading one of them on {} yields the function.
ObjectPrototypeKeys ==
    {"constructor", "toString", "toLocaleString", "valueOf", "hasOwnProperty",
     "isPrototypeOf", "propertyIsEnumerable"}

\* An object literal: its own keys in insertion order, and their values.
\* A value is a number, or the string made of the source text of an
\* inherited function followed by `ones` characters "1".
EmptyObject == [keys |-> <<>>, val |-> <<>>]

OwnIndex(obj, key) == {i \in 1..Len(obj.keys) : obj.keys[i] = key}

\* (obj[key] || 0) + 1
Incremented(obj, key) ==
    IF OwnIndex(obj, key) # {}
    THEN LET v == obj.val[CHOOSE i \in OwnIndex(obj, key) : TRUE]
         IN  IF v.type = "number"
             THEN [type |-> "number", n |-> v.n + 1, ones |-> 0]
             ELSE [type |-> "string", n |-> 0, ones |-> v.ones + 1]
    ELSE IF key \in ObjectPrototypeKeys
    THEN [type |-> "string", n |-> 0, ones |-> 1]
    ELSE [type |-> "number", n |-> 1, ones |-> 0]

\* obj[key] = value
Assigned(obj, key, value) ==
    IF OwnIndex(obj, key) # {}
    THEN [obj EXCEPT !.val[CHOOSE i \in OwnIndex(obj, key) : TRUE] = value]
    ELSE [keys |-> Append(obj.keys, key), val |-> Append(obj.val, value)]

\* The forEach of renderCategoryChart over the first n records.
RECURSIVE CategoryCounts(_, _)
CategoryCounts(repos, n) ==
    IF n = 0 THEN EmptyObject
    ELSE LET counts == CategoryCounts(repos, n - 1)
             category == OrKey(repos[n], "classification", "category", "Uncategorized")
         IN  Assigned(counts, category, Incremented(counts, category))

\* labels = Object.keys(categoryCounts), data = Object.values(categoryCounts)
RenderCategoryChart(repos) ==
    LET categoryCounts == CategoryCounts(repos, Len(repos))
    IN  [labels |-> categoryCounts.keys, data |-> categoryCounts.val]

TopRow(repo) ==
    [name |-> OrStr(repo, "metadata", "name", repo.repo_id),
     category |-> OrKey(repo, "classification", "category", "Uncategorized"),
     stars |-> FormatNumber(OrNum(repo, "metadata", "stars", 0)),
     trending |-> IsTrue(repo, "tracking", "trending")]

\* renderTopRepos: copy, sort the copy by stars descending, keep ten.
RenderTopRepos(h, repos) ==
    LET copy == Spread(h, repos, "spread")
        h1 == SortInPlace(copy.heap, copy.ref, [fn |-> "stars"])
    IN  [h1 EXCEPT !["top10"] = Slice(h1[copy.ref], TopLimit)]

\* IsTrending with the threshold included.
IsTrendingAtLeast(r) ==
    \/ IsTrue(r, "tracking", "trending")
    \/ Has(r, "tracking", "star_velocity_7d")
         /\ r.tracking.star_velocity_7d >= VelocityThreshold

\* The callback of repos.filter in renderTrendingRepos.
IsTrending(r) ==
    \/ IsTrue(r, "tracking", "trending")
    \/ Has(r, "tracking", "star_velocity_7d")
         /\ r.tracking.star_velocity_7d > VelocityThreshold

TrendingRow(repo) ==
    [name |-> OrStr(repo, "metadata", "name", repo.repo_id),
     category |-> OrKey(repo, "classification", "category", "Uncategorized"),
     velocity |-> OrNum(repo, "tracking", "star_velocity_7d", 0)]

\* renderTrendingRepos: filter into a new array, sort it by velocity
\* descending, keep five.
RenderTrendingRepos(h, repos) ==
    LET h1 == [h EXCEPT !["trendingFilter"] = SelectSeq(h[repos], IsTrending)]
        h2 == SortInPlace(h1, "trendingFilter", [fn |-> "velocity"])
    IN  [h2 EXCEPT !["trending"] = Slice(h2["trendingFilter"], TrendingLimit)]

\* renderDashboard (the "last updated" date, formatted by the locale, is
\* left out).
RenderDashboard(h, repos) ==
    LET h1 == RenderTopRepos(h, repos)
        h2 == RenderTrendingRepos(h1, repos)
    IN  [heap |-> h2,
         dom |-> [stats |-> <<RenderStats(h[repos])>>,
                  chart |-> <<RenderCategoryChart(h[repos])>>,
                  top |-> [msg |-> "", rows |-> [i \in 1..Len(h1["top10"]) |-> TopRow(h1["top10"][i])]],
                  trending |->
                    IF Len(h2["trending"]) = 0
                    THEN [msg |-> "No trending repos this week", rows |-> <<>>]
                    ELSE [msg |-> "", rows |-> [i \in 1..Len(h2["trending"]) |->
                                             TrendingRow(h2["trending"][i])]]]]

(***************************************************************************)
(* The state after the script has been loaded, before DOMContentLoaded.    *)
(* The inputs are empty and no sort button carries a class, as in markup   *)
(* that sets neither; the markup is not part of the scripts.               *)
(***************************************************************************)
EmptyHeap == [r \in Refs |-> <<>>]

NoDom == [msg |-> "", rows |-> <<>>]

Init ==
    /\ page \in {"tools", "dashboard"}
    /\ embedded \in BOOLEAN
    /\ loaded = FALSE
    /\ \E data \in IF ~embedded THEN {<<>>}
                   ELSE IF page = "tools" THEN ToolCollections ELSE DashCollections :
          heap = [EmptyHeap EXCEPT !["REPOS_DATA"] = data]
    /\ allRepos = "allRepos0"
    /\ filteredRepos = "filteredRepos0"
    /\ currentSort = [field |-> "stars", dir |-> "desc"]
    /\ searchInput = <<>>
    /\ categoryFilter = ""
    /\ languageFilter = <<>>
    /\ languageOptions = <<>>
    /\ sortBtnClass = [f \in SortFields |-> ""]
    /\ listening = FALSE
    /\ toolsDom = [tbody |-> NoDom, stats |-> <<>>]
    /\ dashDom = [stats |-> <<>>, chart |-> <<>>, top |-> NoDom, trending |-> NoDom]

(***************************************************************************)
(* Handlers.                                                               *)
(***************************************************************************)
\* The state applyFilters leaves, for given values of the three inputs.
Refresh(sort, sInput, catFilter, langFilter) ==
    LET r == ApplyFilters(heap, allRepos, filteredRepos, sort, sInput, catFilter, langFilter)
    IN  /\ heap' = r.heap
        /\ filteredRepos' = r.filteredRepos
        /\ toolsDom' = r.dom

\* tools page: init() on DOMContentLoaded
ToolsInit ==
    /\ page = "tools" /\ ~loaded
    /\ loaded' = TRUE
    /\ IF embedded /\ Len(heap["REPOS_DATA"]) > 0
       THEN LET r == ApplyFilters(heap, "REPOS_DATA", filteredRepos, currentSort,
                                  searchInput, categoryFilter, languageFilter)
            IN  /\ allRepos' = "REPOS_DATA"
                /\ languageOptions' = PopulateLanguageFilter(heap["REPOS_DATA"])
                /\ heap' = r.heap
                /\ filteredRepos' = r.filteredRepos
                /\ toolsDom' = r.dom
                /\ listening' = TRUE
       ELSE /\ toolsDom' = [toolsDom EXCEPT !.tbody = [msg |-> "No data loaded.", rows |-> <<>>]]
            /\ UNCHANGED <<allRepos, languageOptions, heap, filteredRepos, listening>>
    /\ UNCHANGED <<page, embedded, currentSort, searchInput, categoryFilter,
                   languageFilter, sortBtnClass, dashDom>>

\* 'input' on #search-input
SearchInput(term) ==
    /\ listening
    /\ searchInput' = term
    /\ Refresh(currentSort, term, categoryFilter, languageFilter)
    /\ UNCHANGED <<page, embedded, loaded, allRepos, currentSort, categoryFilter,
                   languageFilter, languageOptions, sortBtnClass, listening, dashDom>>

\* 'change' on #category-filter
CategoryChange(category) ==
    /\ listening
    /\ category # categoryFilter
    /\ categoryFilter' = category
    /\ Refresh(currentSort, searchInput, category, languageFilter)
    /\ UNCHANGED <<page, embedded, loaded, allRepos, currentSort, searchInput,
                   languageFilter, languageOptions, sortBtnClass, listening, dashDom>>

\* 'change' on #language-filter
LanguageChange(language) ==
    /\ listening
    /\ language # languageFilter
    /\ languageFilter' = language
    /\ Refresh(currentSort, searchInput, categoryFilter, language)
    /\ UNCHANGED <<page, embedded, loaded, allRepos, currentSort, searchInput,
                   categoryFilter, languageOptions, sortBtnClass, listening, dashDom>>

\* 'click' on the sort button whose data-sort is `field`
SortClick(field) ==
    /\ listening
    /\ currentSort' = ClickSort(currentSort, field)
    /\ sortBtnClass' = [f \in SortFields |-> IF f = field THEN currentSort'.dir ELSE ""]
    /\ Refresh(currentSort', searchInput, categoryFilter, languageFilter)
    /\ UNCHANGED <<page, embedded, loaded, allRepos, searchInput, categoryFilter,
                   languageFilter, languageOptions, listening, dashDom>>

\* dashboard: init() on DOMContentLoaded
DashboardInit ==
    /\ page = "dashboard" /\ ~loaded
    /\ loaded' = TRUE
    /\ IF embedded
       THEN LET r == RenderDashboard(heap, "REPOS_DATA")
            IN  heap' = r.heap /\ dashDom' = r.dom
       ELSE /\ dashDom' = [dashDom EXCEPT !.top = [msg |-> "Error: No data loaded.", rows |-> <<>>]]
            /\ UNCHANGED heap
    /\ UNCHANGED <<page, embedded, allRepos, filteredRepos, currentSort, searchInput,
                   categoryFilter, languageFilter, languageOptions, sortBtnClass,
                   listening, toolsDom>>

LanguageChoices == {<<>>} \cup {languageOptions[i] : i \in 1..Len(languageOptions)}

Next ==
    \/ ToolsInit
    \/ \E term \in SearchTerms : SearchInput(term)
    \/ \E category \in CategoryOptions : CategoryChange(category)
    \/ \E language \in LanguageChoices : LanguageChange(language)
    \/ \E field \in SortFields : SortClick(field)
    \/ DashboardInit

Spec == Init /\ [][Next]_vars

(***************************************************************************)
(* Vocabulary of the properties.                                           *)
(***************************************************************************)
Data == heap["REPOS_DATA"]
All == heap[allRepos]
Filtered == heap[filteredRepos]
Elems(q) == {q[i] : i \in 1..Len(q)}
Pos(q, r) == CHOOSE i \in 1..Len(q) : q[i] = r
Reverse(q) == [i \in 1..Len(q) |-> q[Len(q) + 1 - i]]
ToolsShown == page = "tools" /\ listening
DashboardShown == page = "dashboard" /\ loaded /\ embedded

RawName(r) == IF Has(r, "metadata", "name") THEN r.metadata.name ELSE <<>>
RawDescription(r) == IF Has(r, "metadata", "description") THEN r.metadata.description ELSE <<>>
CategoryOf(r) ==
    IF Has(r, "classification", "category") /\ r.classification.category # ""
    THEN r.classification.category ELSE "Uncategorized"
LanguageOf(r) == IF Has(r, "metadata", "language") THEN r.metadata.language ELSE <<>>
StarsOf(r) == IF Has(r, "metadata", "stars") THEN r.metadata.stars ELSE 0
TimestampOf(r) == IF Has(r, "metadata", "last_updated") THEN r.metadata.last_updated ELSE <<>>
VelocityOf(r) == IF Has(r, "tracking", "star_velocity_7d") THEN r.tracking.star_velocity_7d ELSE 0

CategoryAndLanguageMatch(r) ==
    /\ categoryFilter = "" \/ CategoryOf(r) = categoryFilter
    /\ languageFilter = <<>> \/ LanguageOf(r) = languageFilter

\* C1: after applyFilters a record of the collection is in filteredRepos
\* exactly if the lower-cased search term is empty or a substring of its
\* lower-cased name or description, the category filter is empty or equals
\* its category (default 'Uncategorized'), and the language filter is empty
\* or equals its language (default ''); nothing else is in filteredRepos,
\* and with all three empty filteredRepos has exactly the members of the
\* collection.
C1_FilterComposition ==
    ToolsShown =>
      /\ \A r \in Elems(All) :
           r \in Elems(Filtered) <=>
             /\ \/ searchInput = <<>>
                \/ Includes(ToLowerCase(RawName(r)), ToLowerCase(searchInput))
                \/ Includes(ToLowerCase(RawDescription(r)), ToLowerCase(searchInput))
             /\ CategoryAndLanguageMatch(r)
      /\ Elems(Filtered) \subseteq Elems(All)
      /\ Cardinality(Elems(Filtered)) = Len(Filtered)
      /\ (searchInput = <<>> /\ categoryFilter = "" /\ languageFilter = <<>>)
           => Elems(Filtered) = Elems(All) /\ Len(Filtered) = Len(All)

\* Search "AB", category Infrastructure, language "Py" over three records
\* keeps RepoX alone.
C1_Witness ==
    /\ ToolsShown /\ Len(All) = 3
    /\ searchInput = <<65, 66>> /\ categoryFilter = "Infrastructure"
    /\ languageFilter = <<80, 121>>
    /\ Filtered = <<RepoX>>

Flip(dir) == IF dir = "asc" THEN "desc" ELSE "asc"

\* A step in which currentSort changes and which leaves the asc/desc class
\* on the button of `field` is a click on that button.
C2_ClickStep ==
    \A field \in SortFields :
      (currentSort' # currentSort /\ sortBtnClass'[field] # "") =>
        IF field = currentSort.field
        THEN currentSort' = [field |-> currentSort.field, dir |-> Flip(currentSort.dir)]
        ELSE currentSort' = [field |-> field, dir |-> "desc"]

C2_StateRules ==
    /\ currentSort.dir \in Dirs
    /\ (~ToolsShown) => currentSort = [field |-> "stars", dir |-> "desc"]
    /\ \A field \in SortFields :
         LET once == ClickSort(currentSort, field)
         IN  /\ field = currentSort.field =>
                  once = [field |-> currentSort.field, dir |-> Flip(currentSort.dir)]
             /\ field # currentSort.field => once = [field |-> field, dir |-> "desc"]

\* C2 (as amended): from {stars, desc}, a click on the active field keeps the
\* field and flips the direction, a click on another field selects it with
\* direction 'desc'; the direction is always 'asc' or 'desc', and two
\* consecutive clicks on the ACTIVE field restore the direction.
C2_ToggleSemantics ==
    /\ [](C2_StateRules
          /\ ClickSort(ClickSort(currentSort, currentSort.field),
                       currentSort.field) = currentSort)
    /\ [][C2_ClickStep]_vars

\* Two clicks on "name" from the initial sort: name is active, ascending.
C2_Witness ==
    /\ ToolsShown
    /\ currentSort = [field |-> "name", dir |-> "asc"]
    /\ sortBtnClass["name"] = "asc"

\* C2 (original): the direction is always 'asc' or 'desc' and two consecutive
\* clicks on the same field, whichever it is, restore the direction the
\* sort had before them.
C2_Original ==
    ToolsShown =>
      /\ currentSort.dir \in Dirs
      /\ \A field \in SortFields :
           ClickSort(ClickSort(currentSort, field), field).dir = currentSort.dir

\* The key sortRepos compares for a field; a field it does not know has no
\* key, and its comparator reports every two records equal.
KeysEqual(field, a, b) ==
    CASE field = "name" -> ToLowerCase(RawName(a)) = ToLowerCase(RawName(b))
      [] field = "stars" -> StarsOf(a) = StarsOf(b)
      [] field = "updated" -> TimestampOf(a) = TimestampOf(b)
      [] OTHER -> TRUE

\* Records with equal keys stand in `out` in the order they have in `in`.
KeepsTieOrder(out, in, field) ==
    \A i, j \in 1..Len(out) :
      (i < j /\ KeysEqual(field, out[i], out[j])) => Pos(in, out[i]) < Pos(in, out[j])

\* C3: sorting is stable with respect to the collection: records with equal
\* star counts (renderTopRepos) or equal keys of the active field
\* (sortRepos), in either direction, keep their relative order of the
\* collection; for [A(500), B(1500), C(1500)] the top list cut to 2 is [B, C].
C3_SortStability ==
    /\ DashboardShown =>
         /\ KeepsTieOrder(heap["top10"], Data, "stars")
         /\ Data = WithIds(<<ShapeA, ShapeB, ShapeC>>)
              => Slice(heap["top10"], 2) = <<Data[2], Data[3]>>
    /\ ToolsShown =>
         KeepsTieOrder(Filtered, All, currentSort.field)

\* The example collection rendered: B, C, A.
C3_Witness ==
    /\ DashboardShown
    /\ Data = WithIds(<<ShapeA, ShapeB, ShapeC>>)
    /\ heap["top10"] = <<Data[2], Data[3], Data[1]>>

\* The trending rule as the specification words it.
Qualifies(r) ==
    \/ Has(r, "tracking", "trending") /\ r.tracking.trending = TRUE
    \/ Has(r, "tracking", "star_velocity_7d") /\ r.tracking.star_velocity_7d > 10

Qualifying(repos) == {r \in Elems(repos) : Qualifies(r)}

VelocityDescending(q) ==
    \A i, j \in 1..Len(q) : i < j => VelocityOf(q[i]) >= VelocityOf(q[j])

\* C4 (as amended): every record of the trending list has trending = true or
\* a velocity strictly above 10, and every such record of the collection is
\* in the list when at most 5 qualify; when more qualify the list holds 5 of
\* them and none left out has a higher velocity than one kept.  The list is
\* ordered by velocity descending (absent velocity counted as 0) and holds
\* at most 5 records.
C4_TrendingSet ==
    DashboardShown =>
      LET trending == heap["trending"]
          kept == Elems(trending)
      IN  /\ kept \subseteq Qualifying(Data)
          /\ Cardinality(kept) = Len(trending)
          /\ Cardinality(Qualifying(Data)) <= 5 => kept = Qualifying(Data)
          /\ Cardinality(Qualifying(Data)) > 5 => Len(trending) = 5
          /\ \A r \in Qualifying(Data) \ kept :
               \A t \in kept : VelocityOf(r) <= VelocityOf(t)
          /\ VelocityDescending(trending)
          /\ Len(trending) <= 5

\* Six records that all qualify: the list holds the two with velocity 11
\* and the first three of the four with velocity 0, in collection order.
C4_Witness ==
    /\ DashboardShown
    /\ Data = WithIds(<<ShapeA, ShapeB, ShapeE, ShapeB, ShapeA, ShapeE>>)
    /\ heap["trending"] = <<Data[2], Data[4], Data[1], Data[3], Data[5]>>

\* C4 (original): a record is in the trending list if and only if trending
\* is true or the velocity is strictly above 10; the list is ordered by
\* velocity descending and holds at most 5 records.
C4_Original ==
    DashboardShown =>
      /\ \A r \in Elems(Data) : r \in Elems(heap["trending"]) <=> Qualifies(r)
      /\ VelocityDescending(heap["trending"])
      /\ Len(heap["trending"]) <= 5

\* The Record Normalizer's name and description.
NormalizedName(r) ==
    IF Has(r, "metadata", "name") /\ r.metadata.name # <<>> THEN r.metadata.name
    ELSE r.repo_id
NormalizedDescription(r) ==
    IF Has(r, "metadata", "description") /\ r.metadata.description # <<>>
    THEN r.metadata.description ELSE NoDescription

\* C5: the search is evaluated against the normalized name (the id when the
\* name is absent) and the normalized description ("No description" when
\* absent): a record of the collection is shown exactly if the term is
\* empty or a case-insensitive substring of one of them, and the category
\* and language filters let it pass.
C5_SearchNormalized ==
    ToolsShown =>
      \A r \in Elems(All) :
        r \in Elems(Filtered) <=>
          /\ \/ searchInput = <<>>
             \/ Includes(ToLowerCase(NormalizedName(r)), ToLowerCase(searchInput))
             \/ Includes(ToLowerCase(NormalizedDescription(r)), ToLowerCase(searchInput))
          /\ CategoryAndLanguageMatch(r)

\* Ordered by the raw timestamp, absent as the empty string; records
\* without a timestamp first when ascending, last when descending.
OrderedByTimestamp(q, dir) ==
    \A i, j \in 1..Len(q) :
      i < j =>
        IF dir = "asc"
        THEN /\ ~StrLess(TimestampOf(q[j]), TimestampOf(q[i]))
             /\ TimestampOf(q[j]) = <<>> => TimestampOf(q[i]) = <<>>
        ELSE /\ ~StrLess(TimestampOf(q[i]), TimestampOf(q[j]))
             /\ TimestampOf(q[i]) = <<>> => TimestampOf(q[j]) = <<>>

RECURSIVE SumData(_)
SumData(data) == IF data = <<>> THEN 0 ELSE Head(data).n + SumData(Tail(data))

\* C7: the counts of the category histogram are numbers that sum to the
\* size of the collection, each is at least 1, and the records without a
\* category are counted under 'Uncategorized'.
C7_HistogramSum ==
    DashboardShown =>
      LET chart == dashDom.chart[1]
          uncategorized == {i \in 1..Len(Data) : CategoryOf(Data[i]) = "Uncategorized"}
      IN  /\ \A i \in 1..Len(chart.data) :
               chart.data[i].type = "number" /\ chart.data[i].n >= 1
          /\ SumData(chart.data) = Len(Data)
          /\ \A i \in 1..Len(chart.labels) :
               chart.labels[i] = "Uncategorized"
                 => chart.data[i].n = Cardinality(uncategorized)
          /\ uncategorized # {} => "Uncategorized" \in Elems(chart.labels)

\* C8: no handler changes the collection: window.REPOS_DATA, and with it
\* allRepos once it refers to it, holds the same records in the same order
\* after every step.
C8_CollectionUnchanged ==
    [][/\ heap'["REPOS_DATA"] = heap["REPOS_DATA"]
       /\ listening => (allRepos' = allRepos /\ heap'[allRepos'] = heap[allRepos])]_vars

\* The table shows every record of a collection, in another order.
C8_Witness ==
    /\ ToolsShown
    /\ Len(Filtered) = Len(All) /\ Filtered # All
    /\ All = Data

NoTies(q, field) ==
    \A i, j \in 1..Len(q) : i # j => ~KeysEqual(field, q[i], q[j])

\* C9: for a field on which no two filtered records have equal keys, the
\* ascending sequence is the reverse of the descending one.
C9_DirectionSymmetry ==
    (ToolsShown /\ NoTies(Filtered, currentSort.field)) =>
      LET other == ApplyFilters(heap, allRepos, filteredRepos,
                                [field |-> currentSort.field, dir |-> Flip(currentSort.dir)],
                                searchInput, categoryFilter, languageFilter)
      IN  other.heap[other.filteredRepos] = Reverse(Filtered)

\* Three records with three different names, ascending.
C9_Witness ==
    /\ ToolsShown
    /\ currentSort = [field |-> "name", dir |-> "asc"]
    /\ Filtered = <<RepoAb, RepoX, RepoZ>>

\* C10: filteredRepos is the loaded collection filtered by the current
\* search, category and language values and sorted by the current
\* currentSort, whatever led to this state, the statistics are those of that
\* result, and applyFilters run again changes neither.
C10_NoHiddenHistory ==
    ToolsShown =>
      LET expected ==
            ArraySort(SelectSeq(Data, LAMBDA r :
                                  RepoMatches(r, ToLowerCase(searchInput),
                                              categoryFilter, languageFilter)),
                      [fn |-> "sortRepos", sort |-> currentSort])
          again == ApplyFilters(heap, allRepos, filteredRepos, currentSort,
                                searchInput, categoryFilter, languageFilter)
      IN  /\ Filtered = expected
          /\ toolsDom.stats = <<[showing |-> Len(expected), total |-> Len(Data),
                                 totalStars |-> FormatNumber(SumStars(expected))]>>
          /\ again.heap[again.filteredRepos] = Filtered
          /\ again.dom = toolsDom

\* A state several histories lead to: search "a", sorted by name ascending.
C10_Witness ==
    /\ ToolsShown
    /\ searchInput = <<97>>
    /\ currentSort = [field |-> "name", dir |-> "asc"]
    /\ Len(Filtered) = 3 /\ Len(All) = 3

====
